---------------------------- MODULE Spec2Model ----------------------------
(***************************************************************************)
(* A model of the ZombieRun game server: the entity/game model of          *)
(* models/game.py and the request handlers of controllers/api.py.          *)
(*                                                                         *)
(* Numbers.  The code computes with Python floats; the model computes with *)
(* integers on a grid:                                                     *)
(*   - a coordinate is a whole number of grid units, UnitsPerMeter units   *)
(*     to the metre along either axis, and DistanceFromLatLon is the       *)
(*     planar distance rounded down (the haversine formula's small-angle   *)
(*     form).  One degree is UnitsPerDegree units, so the model's planet   *)
(*     is small; every range check of SetLocation is kept;                 *)
(*   - a time is a whole number of ticks, TicksPerSecond to the second;    *)
(*   - a speed is in millimetres per second;                               *)
(*   - random.random() is a seeded stream over RandomModulus values; the   *)
(*     seed of each call is drawn from Seeds.                              *)
(* An exception is modelled by its class name; NoError means the call      *)
(* returned.  Python's None is None for a coordinate, NoneValue for an     *)
(* object reference or a string property.                                  *)
(***************************************************************************)
EXTENDS Integers, Sequences, FiniteSets, TLC

VARIABLES
  game,      \* the Game object the last call operated on
  stored,    \* the game as last put to the datastore / memcache
  call,      \* the last call: its name, arguments and the exception raised
  clock      \* the time the game has been advanced by so far, in ticks

vars == <<game, stored, call, clock>>

---------------------------------------------------------------------------
(* Program constants, models/game.py lines 10-22.                          *)

TRIGGER_DISTANCE_METERS == 10
ZOMBIE_VISION_DISTANCE_METERS == 200
MAX_TIME_INTERVAL_SECS == 600
MIN_NUM_ZOMBIES == 20
MAX_ZOMBIE_CLUSTER_SIZE == 4
MAX_ZOMBIE_CLUSTER_RADIUS == 30
\* 3 * 0.447 metres per second, in millimetres per second
DEFAULT_ZOMBIE_SPEED == 1341
\* zombies per square kilometre
DEFAULT_ZOMBIE_DENSITY == 20
\* Entity.SetLocation: lat in [-90, 90], lon in [-180, 180] (degrees)
MaxLatDegrees == 90
MaxLonDegrees == 180

(* The grid.                                                               *)
UnitsPerMeter == 10
UnitsPerDegree == 100
TicksPerSecond == 2
RandomModulus == 16

None == -1000000
NoneValue == <<>>
NoError == "none"

---------------------------------------------------------------------------
(* Arithmetic helpers.                                                     *)

Min(a, b) == IF a < b THEN a ELSE b
Max(a, b) == IF a > b THEN a ELSE b

RECURSIVE SqrtSearch(_, _, _)
SqrtSearch(n, lo, hi) ==
  IF lo >= hi THEN lo
  ELSE LET mid == (lo + hi + 1) \div 2
       IN  IF mid * mid <= n THEN SqrtSearch(n, mid, hi)
                             ELSE SqrtSearch(n, lo, mid - 1)

\* math.sqrt, rounded down
Sqrt(n) == SqrtSearch(n, 0, Min(n, 46340))

\* d * num / den, rounded toward zero
MulDiv(d, num, den) ==
  IF d >= 0 THEN (d * num) \div den ELSE 0 - (((0 - d) * num) \div den)

\* Python's truth value of a float or None: None and 0.0 are false
Truthy(x) == x # None /\ x # 0

---------------------------------------------------------------------------
(* random: a seeded stream.  NextRandom is the generator's step; a draw    *)
(* r stands for the float r / RandomModulus in [0, 1).                     *)

NextRandom(r) == (5 * r + 3) % RandomModulus

\* 1000 * math.sin(2 * pi * r / RandomModulus), r = 0 .. 15
SinTable ==
  <<0, 383, 707, 924, 1000, 924, 707, 383,
    0, -383, -707, -924, -1000, -924, -707, -383>>
Sin1000(r) == SinTable[r + 1]
Cos1000(r) == SinTable[((r + 4) % RandomModulus) + 1]

---------------------------------------------------------------------------
(* Entity, models/game.py lines 35-90.                                     *)

Entity == [location |-> <<None, None>>]

Lat(e) == e.location[1]
Lon(e) == e.location[2]

\* the exception Entity.SetLocation raises for (lat, lon)
SetLocationRaises(lat, lon) ==
  IF lat = None \/ lon = None THEN "InvalidLocationError"
  ELSE IF lat > MaxLatDegrees * UnitsPerDegree
            \/ lat < 0 - MaxLatDegrees * UnitsPerDegree
       THEN "InvalidLocationError"
  ELSE IF lon > MaxLonDegrees * UnitsPerDegree
            \/ lon < 0 - MaxLonDegrees * UnitsPerDegree
       THEN "InvalidLocationError"
  ELSE NoError

SetLocation(e, lat, lon) == [e EXCEPT !.location = <<lat, lon>>]

\* arithmetic on None raises TypeError
DistanceFromLatLonRaises(e, lat, lon) ==
  IF Lat(e) = None \/ Lon(e) = None \/ lat = None \/ lon = None
  THEN "TypeError" ELSE NoError

DistanceFromLatLon(e, lat, lon) ==
  LET dlon == lon - Lon(e)
      dlat == lat - Lat(e)
  IN  Sqrt(dlat * dlat + dlon * dlon)

DistanceFromRaises(e, other) ==
  DistanceFromLatLonRaises(e, Lat(other), Lon(other))
DistanceFrom(e, other) == DistanceFromLatLon(e, Lat(other), Lon(other))

EntityDictForJson(e) == [lat |-> Lat(e), lon |-> Lon(e)]

\* Entity.FromString: the location is set only when both are truthy
EntityFromString(e, obj) ==
  IF Truthy(obj.lat) /\ Truthy(obj.lon)
  THEN SetLocation(e, obj.lat, obj.lon)
  ELSE e

---------------------------------------------------------------------------
(* Player, models/game.py lines 93-113.                                    *)

\* Player(user=user)
NewPlayer(email) == [location |-> <<None, None>>, email |-> email]

PlayerDictForJson(p) ==
  [lat |-> Lat(p), lon |-> Lon(p), email |-> p.email]
PlayerToString(p) == PlayerDictForJson(p)

\* Player(encoded)
PlayerFromString(obj) ==
  LET e == EntityFromString(Entity, obj)
  IN  [location |-> e.location, email |-> obj.email]

---------------------------------------------------------------------------
(* Zombie: construction and the textual form, models/game.py lines         *)
(* 136-143 and 195-206.                                                    *)

\* Zombie(speed=speed, chasing=chasing)
NewZombie(speed, chasing) ==
  [location |-> <<None, None>>, speed |-> speed, chasing |-> chasing]

ZombieDictForJson(z) ==
  IF z.chasing # NoneValue
  THEN [lat |-> Lat(z), lon |-> Lon(z), speed |-> z.speed,
        chasing |-> z.chasing.email]
  ELSE [lat |-> Lat(z), lon |-> Lon(z), speed |-> z.speed]
ZombieToString(z) == ZombieDictForJson(z)

\* Zombie.FromString: the state it leaves in the object under construction.
\* The chasing it reads is the target's email, a string and not a Player:
\* <<email>> here.
ZombieFromString(obj) ==
  LET e == EntityFromString(Entity, obj)
  IN  [location |-> e.location, speed |-> obj.speed,
       chasing |-> IF "chasing" \in DOMAIN obj THEN <<obj.chasing>>
                   ELSE NoneValue]

\* what Zombie.__init__ assigns to self.chasing after Entity.__init__ has
\* run FromString: its own chasing argument
InitChasing(decoded, chasing) == chasing

\* Zombie(encoded): speed and chasing default to None
ZombieFromEncoded(obj) ==
  LET z == ZombieFromString(obj)
  IN  [z EXCEPT !.chasing = InitChasing(z.chasing, NoneValue)]

\* Destination(encoded); encoded may be None (no destination recorded)
DestinationFromEncoded(encoded) ==
  IF encoded = NoneValue THEN Entity ELSE EntityFromString(Entity, encoded)

---------------------------------------------------------------------------
(* Zombie: target acquisition and movement, models/game.py lines 145-193.  *)

\* the loop of Zombie.ComputeChasing over players[i], players[i+1], ...
RECURSIVE ScanPlayers(_, _, _, _)
ScanPlayers(z, players, i, acc) ==
  LET Nearer(distance) ==
        IF acc.min_distance = None \/ distance < acc.min_distance
        THEN [acc EXCEPT !.min_distance = distance,
                         !.min_player = players[i]]
        ELSE acc
  IN  IF i > Len(players) THEN acc
      ELSE IF DistanceFromRaises(z, players[i]) # NoError
      THEN [acc EXCEPT !.raised = DistanceFromRaises(z, players[i])]
      ELSE ScanPlayers(z, players, i + 1,
                       Nearer(DistanceFrom(z, players[i])))

\* the player Zombie.ComputeChasing assigns to self.chasing when the minimum
\* distance is within vision: the loop variable `player`, which after the
\* loop is the last player iterated
ChasingTarget(players, min_player) == players[Len(players)]

\* Zombie.ComputeChasing.  Python 2 orders None below every number, so with
\* no player min_distance < 200 is true and the unbound loop variable is read.
ComputeChasing(z, players) ==
  LET Scanned(scan) ==
        IF scan.raised # NoError THEN [zombie |-> z, raised |-> scan.raised]
        ELSE IF scan.min_distance = None
                  \/ scan.min_distance
                       < ZOMBIE_VISION_DISTANCE_METERS * UnitsPerMeter
             THEN IF players = <<>>
                  THEN [zombie |-> z, raised |-> "UnboundLocalError"]
                  ELSE [zombie |->
                          [z EXCEPT !.chasing =
                              ChasingTarget(players, scan.min_player)],
                        raised |-> NoError]
        ELSE [zombie |-> [z EXCEPT !.chasing = NoneValue],
              raised |-> NoError]
  IN  Scanned(ScanPlayers(z, players, 1,
                [min_distance |-> None, min_player |-> NoneValue,
                 raised |-> NoError]))

\* Zombie.MoveTowardsLatLon
MoveTowardsLatLon(z, lat, lon, distance) ==
  LET Placed(to_lat, to_lon) ==
        IF SetLocationRaises(to_lat, to_lon) # NoError
        THEN [zombie |-> z, raised |-> SetLocationRaises(to_lat, to_lon)]
        ELSE [zombie |-> SetLocation(z, to_lat, to_lon), raised |-> NoError]
      Moved(dstToLatLon) ==
        Placed(Lat(z) + (IF dstToLatLon > 0
                         THEN MulDiv(lat - Lat(z), distance, dstToLatLon)
                         ELSE 0),
               Lon(z) + (IF dstToLatLon > 0
                         THEN MulDiv(lon - Lon(z), distance, dstToLatLon)
                         ELSE 0))
  IN  IF DistanceFromLatLonRaises(z, lat, lon) # NoError
      THEN [zombie |-> z, raised |-> DistanceFromLatLonRaises(z, lat, lon)]
      ELSE Moved(DistanceFromLatLon(z, lat, lon))

\* random.random() - 0.5, in degrees, as grid units
RandomOffset(r) == MulDiv(2 * r - RandomModulus, UnitsPerDegree,
                          2 * RandomModulus)

\* the movement budget of one iteration of Zombie.Advance's loop:
\* distance_to_move = seconds * self.speed, in grid units
DistanceToMove(seconds, speed) ==
  (seconds * speed * UnitsPerMeter) \div (TicksPerSecond * 1000)

\* one iteration of the while loop of Zombie.Advance, `seconds` being the
\* loop variable's value in it
ZombieStep(z, seconds, players, rnd) ==
  LET distance_to_move == DistanceToMove(seconds, z.speed)
      Moved(zc, moved) ==
        [zombie |-> moved.zombie,
         rnd |-> IF zc.chasing # NoneValue THEN rnd
                 ELSE NextRandom(NextRandom(rnd)),
         raised |-> moved.raised]
      Move(zc) ==
        Moved(zc,
              MoveTowardsLatLon(
                zc,
                IF zc.chasing # NoneValue THEN Lat(zc.chasing)
                ELSE Lat(zc) + RandomOffset(rnd),
                IF zc.chasing # NoneValue THEN Lon(zc.chasing)
                ELSE Lon(zc) + RandomOffset(NextRandom(rnd)),
                IF zc.chasing # NoneValue
                THEN Min(DistanceFrom(zc, zc.chasing), distance_to_move)
                ELSE distance_to_move))
      Chased(cc) ==
        IF cc.raised # NoError
        THEN [zombie |-> cc.zombie, rnd |-> rnd, raised |-> cc.raised]
        ELSE Move(cc.zombie)
  IN  Chased(ComputeChasing(z, players))

\* iterations first .. last of the while loop (numbered from 0), stopping
\* at the first exception
RECURSIVE RunSteps(_, _, _, _, _)
RunSteps(st, seconds, players, first, last) ==
  IF st.raised # NoError THEN st
  ELSE IF first = last
       THEN ZombieStep(st.zombie, seconds - first * TicksPerSecond,
                       players, st.rnd)
  ELSE LET mid == (first + last) \div 2
       IN  RunSteps(RunSteps(st, seconds, players, first, mid),
                    seconds, players, mid + 1, last)

\* the number of iterations of `while seconds > 0: ... seconds = seconds - 1`
StepCount(seconds) ==
  IF seconds <= 0 THEN 0
  ELSE (seconds + TicksPerSecond - 1) \div TicksPerSecond

\* Zombie.Advance
ZombieAdvance(z, seconds, players, rnd) ==
  LET st == [zombie |-> z, rnd |-> rnd, raised |-> NoError]
  IN  IF StepCount(seconds) = 0 THEN st
      ELSE RunSteps(st, seconds, players, 0, StepCount(seconds) - 1)

---------------------------------------------------------------------------
(* Game, models/game.py lines 215-309.                                     *)

\* Game(): the properties' defaults
NewGame(owner) ==
  [owner |-> owner,
   player_emails |-> <<>>,
   players |-> <<>>,
   zombies |-> <<>>,
   destination |-> NoneValue,
   average_zombie_speed |-> DEFAULT_ZOMBIE_SPEED,
   zombie_density |-> DEFAULT_ZOMBIE_DENSITY,
   started |-> FALSE,
   done |-> FALSE,
   humans_won |-> "None"]

Players(g) == [i \in 1 .. Len(g.players) |-> PlayerFromString(g.players[i])]

IsLocated(p) == Truthy(Lat(p)) /\ Truthy(Lon(p))
LocatedPlayers(g) == SelectSeq(Players(g), IsLocated)

AddPlayer(g, player) ==
  [g EXCEPT !.players = Append(@, PlayerToString(player)),
            !.player_emails = Append(@, player.email)]

\* SetPlayer with the bound off by one: an index just past the end passes
SetPlayerRaisesPastEnd(g, index) ==
  IF index > Len(g.players) THEN "ModelStateError" ELSE NoError

\* indexes are Python's: 0 is the first element
SetPlayerRaises(g, index) ==
  IF index > Len(g.players) - 1 THEN "ModelStateError" ELSE NoError
SetPlayer(g, index, player) ==
  [g EXCEPT !.players[index + 1] = PlayerToString(player),
            !.player_emails[index + 1] = player.email]

Zombies(g) == [i \in 1 .. Len(g.zombies) |-> ZombieFromEncoded(g.zombies[i])]

AddZombie(g, zombie) ==
  [g EXCEPT !.zombies = Append(@, ZombieToString(zombie))]

SetZombieRaises(g, index) ==
  IF index > Len(g.zombies) - 1 THEN "ModelStateError" ELSE NoError
SetZombie(g, index, zombie) ==
  [g EXCEPT !.zombies[index + 1] = ZombieToString(zombie)]

GameDestination(g) == DestinationFromEncoded(g.destination)

SetDestination(g, destination) ==
  [g EXCEPT !.destination = EntityDictForJson(destination)]

Start(g) == [g EXCEPT !.started = TRUE]

GameOver(g, humans_won) ==
  [g EXCEPT !.done = TRUE, !.humans_won = humans_won]

\* Zombie.Trigger
ZombieTrigger(g) == [game |-> GameOver(g, "False"), raised |-> NoError]

\* the destination's trigger as Destination.Trigger would run it
DestinationTriggerFires(g) ==
  [game |-> GameOver(g, "True"), raised |-> NoError]

\* Game.Advance line 302, self.destination.Trigger(player, self):
\* self.destination is the encoded string, which has no Trigger
DestinationTrigger(g) == [game |-> g, raised |-> "AttributeError"]

\* the first loop of Game.Advance from zombie i on: each zombie is decoded,
\* advanced and written back
RECURSIVE AdvanceZombies(_, _, _, _)
AdvanceZombies(g, seconds_to_move, rnd, i) ==
  LET Written(r) ==
        IF r.raised # NoError THEN [game |-> g, raised |-> r.raised]
        ELSE AdvanceZombies(SetZombie(g, i - 1, r.zombie),
                            seconds_to_move, r.rnd, i + 1)
  IN  IF i > Len(g.zombies) THEN [game |-> g, raised |-> NoError]
      ELSE Written(ZombieAdvance(ZombieFromEncoded(g.zombies[i]),
                                 seconds_to_move, LocatedPlayers(g), rnd))

\* the inner trigger loop of Game.Advance for one player, from zombie j on
RECURSIVE ZombieTriggers(_, _, _)
ZombieTriggers(g, player, j) ==
  LET Triggered(t) ==
        IF t.raised # NoError THEN t
        ELSE ZombieTriggers(t.game, player, j + 1)
      Near(zombie) ==
        IF DistanceFromRaises(player, zombie) # NoError
        THEN [game |-> g, raised |-> DistanceFromRaises(player, zombie)]
        ELSE Triggered(IF DistanceFrom(player, zombie)
                            < TRIGGER_DISTANCE_METERS * UnitsPerMeter
                       THEN ZombieTrigger(g)
                       ELSE [game |-> g, raised |-> NoError])
  IN  IF j > Len(g.zombies) THEN [game |-> g, raised |-> NoError]
      ELSE Near(ZombieFromEncoded(g.zombies[j]))

\* the trigger loop of Game.Advance from located player i on
RECURSIVE PerformTriggers(_, _, _)
PerformTriggers(g, located, i) ==
  LET player == located[i]
      AtZombies(zt) ==
        IF zt.raised # NoError THEN zt
        ELSE PerformTriggers(zt.game, located, i + 1)
      AtDestination(dt) ==
        IF dt.raised # NoError THEN dt
        ELSE AtZombies(ZombieTriggers(dt.game, player, 1))
      Near(destination) ==
        IF DistanceFromRaises(player, destination) # NoError
        THEN [game |-> g,
              raised |-> DistanceFromRaises(player, destination)]
        ELSE IF DistanceFrom(player, destination)
                  < TRIGGER_DISTANCE_METERS * UnitsPerMeter
        THEN DestinationTrigger(g)
        ELSE [game |-> g, raised |-> NoError]
  IN  IF i > Len(located) THEN [game |-> g, raised |-> NoError]
      ELSE AtDestination(Near(GameDestination(g)))

\* Game.Advance, `elapsed` being now - last_update_time and `seed` the state
\* of the random stream
GameAdvance(g, elapsed, seed) ==
  LET seconds_to_move ==
        Min(elapsed, MAX_TIME_INTERVAL_SECS * TicksPerSecond)
      Triggers(moved) ==
        IF moved.raised # NoError THEN moved
        ELSE PerformTriggers(moved.game, LocatedPlayers(moved.game), 1)
  IN  Triggers(AdvanceZombies(g, seconds_to_move, seed, 1))

---------------------------------------------------------------------------
(* Bounds and inputs of the model.                                         *)

MaxPlayers == 2
MaxZombies == 1
\* the time a game is run for, in ticks
MaxClock == 3

Owner == "owner@example.com"
Friend == "friend@example.com"
Emails == {Owner, Friend}

\* coordinates a player reports: 9.5 m from the first zombie location, at
\* the second one, and on the equator
PlayerLocs == {<<905, 7>>, <<4000, 7>>, <<0, 7>>}
ZombieLocs == {<<1000, 7>>}
DestinationLocs == {<<4000, 7>>, <<-2000, 7>>}
Speeds == {DEFAULT_ZOMBIE_SPEED}
\* now - last_update_time, in ticks: 0 s, 1 s, 1.5 s
Elapsed == {0, 2, 3}
Seeds == {0, 6}

\* the Player objects a caller can hold: Player(user=...), then SetLocation
PlayerObjects(emails) ==
  {NewPlayer(e) : e \in emails}
    \cup {SetLocation(NewPlayer(e), l[1], l[2]) :
            e \in emails, l \in PlayerLocs}

\* the Zombie objects a caller can hold: Zombie(speed=..., chasing=...),
\* then SetLocation
ZombieObjects(targets) ==
  {SetLocation(NewZombie(s, c), l[1], l[2]) :
     s \in Speeds, c \in {NoneValue} \cup targets, l \in ZombieLocs}

Range(f) == {f[i] : i \in DOMAIN f}

---------------------------------------------------------------------------
(* The Game object under direct calls of its methods.                      *)

Init ==
  /\ game = NewGame(Owner)
  /\ stored = NewGame(Owner)
  /\ call = [op |-> "Game", raised |-> NoError]
  /\ clock = 0

CallAddPlayer ==
  /\ Len(game.players) < MaxPlayers
  /\ \E player \in PlayerObjects(
                     IF game.players = <<>> THEN {game.owner}
                     ELSE Emails \ Range(game.player_emails)) :
       /\ game' = AddPlayer(game, player)
       /\ call' = [op |-> "AddPlayer", raised |-> NoError]
  /\ UNCHANGED <<stored, clock>>

\* a replaced player keeps the email of the player it replaces
CallSetPlayer ==
  /\ \E index \in 0 .. MaxPlayers :
       \E player \in PlayerObjects(
                       IF index < Len(game.players)
                       THEN {game.player_emails[index + 1]}
                       ELSE {Owner}) :
         /\ game' = IF SetPlayerRaises(game, index) # NoError THEN game
                    ELSE SetPlayer(game, index, player)
         /\ call' = [op |-> "SetPlayer",
                     raised |-> SetPlayerRaises(game, index),
                     index |-> index]
  /\ UNCHANGED <<stored, clock>>

CallAddZombie ==
  /\ Len(game.zombies) < MaxZombies
  /\ \E zombie \in ZombieObjects({}) :
       /\ game' = AddZombie(game, zombie)
       /\ call' = [op |-> "AddZombie", raised |-> NoError]
  /\ UNCHANGED <<stored, clock>>

CallSetZombie ==
  /\ \E index \in 0 .. MaxZombies :
       \E zombie \in ZombieObjects({}) :
         /\ game' = IF SetZombieRaises(game, index) # NoError THEN game
                    ELSE SetZombie(game, index, zombie)
         /\ call' = [op |-> "SetZombie",
                     raised |-> SetZombieRaises(game, index),
                     index |-> index]
  /\ UNCHANGED <<stored, clock>>

CallSetDestination ==
  /\ \E l \in DestinationLocs :
       /\ game' = SetDestination(game, SetLocation(Entity, l[1], l[2]))
       /\ call' = [op |-> "SetDestination", raised |-> NoError]
  /\ UNCHANGED <<stored, clock>>

CallStart ==
  /\ ~game.started
  /\ game' = Start(game)
  /\ call' = [op |-> "Start", raised |-> NoError]
  /\ UNCHANGED <<stored, clock>>

\* the callers advance a started game only (api.py lines 255 and 429)
CallAdvance ==
  /\ game.started
  /\ \E elapsed \in {e \in Elapsed : clock + e <= MaxClock},
        seed \in Seeds :
       \E r \in {GameAdvance(game, elapsed, seed)} :
           /\ game' = r.game
           /\ call' = [op |-> "Advance", raised |-> r.raised,
                       seconds |-> elapsed, done_before |-> game.done]
           /\ clock' = clock + elapsed
  /\ UNCHANGED stored

Next ==
  \/ CallAddPlayer
  \/ CallSetPlayer
  \/ CallAddZombie
  \/ CallSetZombie
  \/ CallSetDestination
  \/ CallStart
  \/ CallAdvance

Spec == Init /\ [][Next]_vars

---------------------------------------------------------------------------
(* Properties of the Game object.                                          *)

TriggerDistance == TRIGGER_DISTANCE_METERS * UnitsPerMeter
VisionDistance == ZOMBIE_VISION_DISTANCE_METERS * UnitsPerMeter

\* the players whose coordinate has been set through SetLocation
PlayersWithCoordinate(g) ==
  SelectSeq(g.players, LAMBDA obj : obj.lat # None /\ obj.lon # None)

\* every zombie of g decodes with its coordinate
ZombiesDecode(g) ==
  \A i \in 1 .. Len(g.zombies) : Lat(Zombies(g)[i]) # None

\* the destination of g is recorded and decodes with its coordinate
DestinationDecodes(g) ==
  g.destination # NoneValue /\ Lat(GameDestination(g)) # None

\* some located player of g is within the trigger distance of a zombie
PlayerNearZombie(g) ==
  \E p \in Range(LocatedPlayers(g)) : \E z \in Range(Zombies(g)) :
    Lat(z) # None /\ DistanceFrom(p, z) < TriggerDistance

\* some located player of g is within the trigger distance of the destination
PlayerNearDestination(g) ==
  /\ DestinationDecodes(g)
  /\ \E p \in Range(LocatedPlayers(g)) :
       DistanceFrom(p, GameDestination(g)) < TriggerDistance

\* C1: the recorded outcome is terminal: once done with some winner, every
\* later step (an Advance call or a location update) leaves done true and
\* humans_won the same.
C1_OutcomeIsTerminal ==
  [][game.done =>
       (game'.done /\ game'.humans_won = game.humans_won)]_vars

\* an Advance call on a game that was done already, which is still done
C1_Witness ==
  /\ call.op = "Advance"
  /\ call.done_before
  /\ game.done
  /\ game.humans_won = "False"

\* the target ComputeChasing is claimed to leave z with, as a list of at
\* most one email: that of the first player at the minimum distance, nobody
\* beyond vision
ClaimedTarget(z, players) ==
  LET scan == ScanPlayers(z, players, 1,
                [min_distance |-> None, min_player |-> NoneValue,
                 raised |-> NoError])
  IN  IF scan.min_distance < VisionDistance THEN <<scan.min_player.email>>
      ELSE <<>>

\* the target recorded in an encoded zombie, as a list of at most one email
RecordedTarget(obj) ==
  IF "chasing" \in DOMAIN obj THEN <<obj.chasing>> ELSE <<>>

\* no two of the players are at the same place
DistinctLocations(players) ==
  \A i, j \in 1 .. Len(players) :
    i # j => players[i].location # players[j].location

\* C2: target acquisition over a non-empty list of located players leaves
\* the pursuer chasing the nearest player when that one is within 200 m,
\* and nobody otherwise.  Stated of an Advance call of one step, whose
\* ComputeChasing sees the positions the call started with, and of players
\* at different places (no tie to break).
C2_ChasesNearest ==
  [][(/\ call'.op = "Advance"
      /\ call'.raised = NoError
      /\ call'.seconds \in 1 .. TicksPerSecond
      /\ Len(LocatedPlayers(game)) >= 1
      /\ DistinctLocations(LocatedPlayers(game))
      /\ ZombiesDecode(game))
     => \A i \in 1 .. Len(game.zombies) :
          RecordedTarget(game'.zombies[i])
            = ClaimedTarget(Zombies(game)[i], LocatedPlayers(game))
    ]_vars

\* C3: Advance on a started game with pursuers, a positive elapsed time and
\* no player with a coordinate returns, and leaves every pursuer wandering.
C3_AdvanceWithoutPlayers ==
  [][(/\ call'.op = "Advance"
      /\ call'.seconds > 0
      /\ game.zombies # <<>>
      /\ PlayersWithCoordinate(game) = <<>>)
     => /\ call'.raised = NoError
        /\ \A i \in 1 .. Len(game'.zombies) :
             RecordedTarget(game'.zombies[i]) = <<>>
    ]_vars

\* C4: with a located player within 10 m of the destination and no pursuer
\* within 10 m of a located player, Advance returns with done set and the
\* players as winners.
C4_DestinationWins ==
  [][(/\ call'.op = "Advance"
      /\ ZombiesDecode(game)
      /\ PlayerNearDestination(game)
      /\ ~PlayerNearZombie(game))
     => /\ call'.raised = NoError
        /\ game'.done
        /\ game'.humans_won = "True"
    ]_vars

\* C5: with a located player within 10 m of a pursuer and no located player
\* within 10 m of the destination, Advance leaves done set and the pursuers
\* as winners, whatever the elapsed time.
C5_ZombieWins ==
  [][(/\ call'.op = "Advance"
      /\ ZombiesDecode(game)
      /\ DestinationDecodes(game)
      /\ PlayerNearZombie(game)
      /\ ~PlayerNearDestination(game))
     => /\ game'.done
        /\ game'.humans_won = "False"
    ]_vars

\* C8: the located players are exactly the players whose coordinate has
\* been set, a coordinate on the equator or the prime meridian included.
C8_LocatedIffCoordinateSet ==
  {p.email : p \in Range(LocatedPlayers(game))}
    = {obj.email : obj \in Range(PlayersWithCoordinate(game))}

\* C10: SetPlayer and SetZombie with an index at or past the end of the list
\* raise ModelStateError and leave the three lists as they were.
C10_OutOfRangeReplace ==
  [][(\/ call'.op = "SetPlayer" /\ call'.index >= Len(game.players)
      \/ call'.op = "SetZombie" /\ call'.index >= Len(game.zombies))
     => /\ call'.raised = "ModelStateError"
        /\ game'.players = game.players
        /\ game'.player_emails = game.player_emails
        /\ game'.zombies = game.zombies
    ]_vars

\* a SetPlayer call past the end of a non-empty list, which raised
C10_Witness ==
  /\ call.op = "SetPlayer"
  /\ call.index >= Len(game.players)
  /\ Len(game.players) > 0
  /\ call.raised = "ModelStateError"

---------------------------------------------------------------------------
(* The textual form: an entity is constructed, encoded, decoded and        *)
(* encoded again.  `call` holds the object and what became of it.          *)

CodecLocs == {<<905, 7>>, <<-300, 12>>, <<0, 7>>, <<905, 0>>}
CodecSpeeds == {DEFAULT_ZOMBIE_SPEED, 1207}

CodecPlayers ==
  {NewPlayer(e) : e \in Emails}
    \cup {SetLocation(NewPlayer(e), l[1], l[2]) :
            e \in Emails, l \in CodecLocs}

CodecZombies ==
  {SetLocation(NewZombie(s, c), l[1], l[2]) :
     s \in CodecSpeeds, c \in {NoneValue} \cup CodecPlayers,
     l \in CodecLocs}

CodecInit ==
  /\ game = NewGame(Owner)
  /\ stored = NewGame(Owner)
  /\ clock = 0
  /\ call \in {[op |-> "Player", kind |-> "Player", entity |-> p] :
                 p \in CodecPlayers}
          \cup {[op |-> "Zombie", kind |-> "Zombie", entity |-> z] :
                  z \in CodecZombies}

CallToString ==
  /\ call.op \in {"Player", "Zombie"}
  /\ call' = [op |-> "ToString", kind |-> call.kind, entity |-> call.entity,
              text |-> IF call.kind = "Player"
                       THEN PlayerToString(call.entity)
                       ELSE ZombieToString(call.entity)]
  /\ UNCHANGED <<game, stored, clock>>

CallFromString ==
  /\ call.op = "ToString"
  /\ call' = [op |-> "FromString", kind |-> call.kind,
              entity |-> call.entity, text |-> call.text,
              decoded |-> IF call.kind = "Player"
                          THEN PlayerFromString(call.text)
                          ELSE ZombieFromEncoded(call.text)]
  /\ UNCHANGED <<game, stored, clock>>

CallToStringAgain ==
  /\ call.op = "FromString"
  /\ call' = [op |-> "ToStringAgain", kind |-> call.kind,
              entity |-> call.entity, text |-> call.text,
              decoded |-> call.decoded,
              text_again |-> IF call.kind = "Player"
                             THEN PlayerToString(call.decoded)
                             ELSE ZombieToString(call.decoded)]
  /\ UNCHANGED <<game, stored, clock>>

CodecNext == CallToString \/ CallFromString \/ CallToStringAgain

SpecCodec == CodecInit /\ [][CodecNext]_vars

\* the identifier of the player a constructed zombie chases, as a list of
\* at most one email
TargetOf(z) ==
  IF z.chasing = NoneValue THEN <<>> ELSE <<z.chasing.email>>

\* C9: decoding the encoded text of a validly constructed Player or Zombie
\* gives back its coordinate, its email or speed and, for a zombie that was
\* chasing, the target's email; and the decoded entity encodes to the same
\* text again.  Stated of entities off the equator and the prime meridian.
C9_RoundTrip ==
  (/\ call.op \in {"FromString", "ToStringAgain"}
   /\ Lat(call.entity) # 0
   /\ Lon(call.entity) # 0)
  => /\ call.decoded.location = call.entity.location
     /\ call.kind = "Player" => call.decoded.email = call.entity.email
     /\ call.kind = "Zombie" =>
          /\ call.decoded.speed = call.entity.speed
          /\ call.decoded.chasing = TargetOf(call.entity)
     /\ call.op = "ToStringAgain" => call.text_again = call.text

---------------------------------------------------------------------------
(* The request handlers, controllers/api.py.  A handler loads the stored   *)
(* game, works on that snapshot and stores it with PutGame; an exception   *)
(* leaves the stored game as it was.                                       *)

\* GameHandler.Authorize: the user must be one of the game's players
AuthorizeRaises(g, user) ==
  IF \E i \in 1 .. Len(g.players) : Players(g)[i].email = user
  THEN NoError ELSE "AuthorizationError"

\* random.random() * x, for the draw r
RandomTimes(r, x) == (r * x) \div RandomModulus
\* random.randint(1, n), for the draw r
RandInt(r, n) == 1 + ((r * n) \div RandomModulus)

\* StartHandler.RandomPointNear: the point `distance` away from (lat, lon)
\* on a random bearing
RandomPointNear(lat, lon, distance, rnd) ==
  LET to_lat == lat + MulDiv(Sin1000(rnd), UnitsPerDegree, 1000)
      to_lon == lon + MulDiv(Cos1000(rnd), UnitsPerDegree, 1000)
      Scaled(base_to_distance) ==
        [lat |-> lat + MulDiv(to_lat - lat, distance, base_to_distance),
         lon |-> lon + MulDiv(to_lon - lon, distance, base_to_distance),
         rnd |-> NextRandom(rnd), raised |-> NoError]
      Failed(raised) ==
        [lat |-> None, lon |-> None, rnd |-> NextRandom(rnd),
         raised |-> raised]
  IN  IF SetLocationRaises(lat, lon) # NoError
      THEN Failed(SetLocationRaises(lat, lon))
      ELSE IF SetLocationRaises(to_lat, to_lon) # NoError
      THEN Failed(SetLocationRaises(to_lat, to_lon))
      ELSE Scaled(DistanceFrom(SetLocation(Entity, lat, lon),
                               SetLocation(Entity, to_lat, to_lon)))

\* average speed * ((random.random() - 0.5) * ZOMBIE_SPEED_VARIANCE + 1),
\* the variance being 0.2
ZombieSpeed(average, r) ==
  (average * (9 * RandomModulus + 2 * r)) \div (10 * RandomModulus)

\* StartHandler.AddZombie: one zombie near the centre of its cluster
HandlerAddZombie(g, center_lat, center_lon, rnd) ==
  LET speed == ZombieSpeed(g.average_zombie_speed, rnd)
      distance_from_center ==
        RandomTimes(NextRandom(rnd),
                    MAX_ZOMBIE_CLUSTER_RADIUS * UnitsPerMeter)
      Placed(p) ==
        IF p.raised # NoError
        THEN [game |-> g, rnd |-> p.rnd, raised |-> p.raised]
        ELSE IF SetLocationRaises(p.lat, p.lon) # NoError
        THEN [game |-> g, rnd |-> p.rnd,
              raised |-> SetLocationRaises(p.lat, p.lon)]
        ELSE [game |-> AddZombie(g, SetLocation(NewZombie(speed, NoneValue),
                                                p.lat, p.lon)),
              rnd |-> p.rnd, raised |-> NoError]
  IN  Placed(RandomPointNear(center_lat, center_lon, distance_from_center,
                             NextRandom(NextRandom(rnd))))

\* the loop of AddZombieCluster: num_zombies more zombies around the centre
RECURSIVE AddClusterZombies(_, _, _, _, _)
AddClusterZombies(g, cluster_lat, cluster_lon, num_zombies, rnd) ==
  LET Added(a) ==
        IF a.raised # NoError THEN a
        ELSE AddClusterZombies(a.game, cluster_lat, cluster_lon,
                               num_zombies - 1, a.rnd)
  IN  IF num_zombies = 0 THEN [game |-> g, rnd |-> rnd, raised |-> NoError]
      ELSE Added(HandlerAddZombie(g, cluster_lat, cluster_lon, rnd))

\* StartHandler.AddZombieCluster
AddZombieCluster(g, epicenter_lat, epicenter_lon, max_radius, num_zombies, rnd) ==
  LET cluster_distance_from_epicenter == RandomTimes(rnd, max_radius)
      Around(p) ==
        IF p.raised # NoError
        THEN [game |-> g, rnd |-> p.rnd, raised |-> p.raised]
        ELSE AddClusterZombies(g, p.lat, p.lon, num_zombies, p.rnd)
  IN  Around(RandomPointNear(epicenter_lat, epicenter_lon,
                             cluster_distance_from_epicenter,
                             NextRandom(rnd)))

\* StartHandler.GetZombieEpicenter: the midpoint of owner and destination;
\* a destination that decoded without a coordinate makes the subtraction
\* raise
GetZombieEpicenterRaises(g, owner) ==
  IF Lat(GameDestination(g)) = None \/ Lon(GameDestination(g)) = None
  THEN "TypeError" ELSE NoError
GetZombieEpicenter(g, owner) ==
  LET Midpoint(destination) ==
        <<Lat(owner) + MulDiv(Lat(destination) - Lat(owner), 1, 2),
          Lon(owner) + MulDiv(Lon(destination) - Lon(owner), 1, 2)>>
  IN  Midpoint(GameDestination(g))

\* int(max(zombie_density * area_kmsq, MIN_NUM_ZOMBIES)) for a radius in
\* grid units; pi is 355 / 113 and the area is taken in thousands of
\* square metres
NumZombies(zombie_density, radius) ==
  LET area == (radius * radius) \div (UnitsPerMeter * UnitsPerMeter * 1000)
  IN  Max((zombie_density * 355 * area) \div 113000, MIN_NUM_ZOMBIES)

\* the while loop of PopulateZombies; `clusters` lists the sizes drawn
RECURSIVE PopulateLoop(_, _, _, _, _, _)
PopulateLoop(g, epicenter, radius, num_zombies, rnd, clusters) ==
  LET max_zombie_cluster_size ==
        Min(MAX_ZOMBIE_CLUSTER_SIZE, num_zombies - Len(g.zombies))
      zombie_cluster_size == RandInt(rnd, max_zombie_cluster_size)
      Clustered(c) ==
        IF c.raised # NoError
        THEN [game |-> c.game, raised |-> c.raised,
              num_zombies |-> num_zombies, clusters |-> clusters]
        ELSE PopulateLoop(c.game, epicenter, radius, num_zombies, c.rnd,
                          Append(clusters, zombie_cluster_size))
  IN  IF ~(Len(g.zombies) < num_zombies)
      THEN [game |-> g, raised |-> NoError, num_zombies |-> num_zombies,
            clusters |-> clusters]
      ELSE Clustered(AddZombieCluster(g, epicenter[1], epicenter[2], radius,
                                      zombie_cluster_size, NextRandom(rnd)))

\* StartHandler.PopulateZombies
PopulateZombies(g, rnd) ==
  LET Failed(e) == [game |-> g, raised |-> e, num_zombies |-> 0,
                    clusters |-> <<>>]
      Populate(radius_m, epicenter) ==
        PopulateLoop(g, epicenter, radius_m,
                     NumZombies(g.zombie_density, radius_m), rnd, <<>>)
      Around(owner) ==
        IF ~Truthy(Lat(owner)) \/ ~Truthy(Lon(owner))
        THEN Failed("GameStateError")
        ELSE IF GetZombieEpicenterRaises(g, owner) # NoError
        THEN Failed(GetZombieEpicenterRaises(g, owner))
        ELSE Populate(DistanceFrom(owner, GameDestination(g)),
                      GetZombieEpicenter(g, owner))
      OwnerOf(owners) ==
        IF owners = <<>> THEN Failed("AttributeError")
        ELSE Around(owners[Len(owners)])
  IN  OwnerOf(SelectSeq(Players(g), LAMBDA p : p.email = g.owner))

\* Start without the assignment game.started = True
HandlerStartUnmarked(g, user, lat, lon, rnd) ==
  LET Failed(e) == [game |-> g, raised |-> e, num_zombies |-> 0,
                    clusters |-> <<>>]
  IN  IF AuthorizeRaises(g, user) # NoError
      THEN Failed(AuthorizeRaises(g, user))
      ELSE IF user # g.owner THEN Failed("AuthorizationError")
      ELSE IF SetLocationRaises(lat, lon) # NoError
      THEN Failed(SetLocationRaises(lat, lon))
      ELSE PopulateZombies(
             SetDestination(g, SetLocation(Entity, lat, lon)), rnd)

\* StartHandler.get, the function Start run on the loaded game
HandlerStart(g, user, lat, lon, rnd) ==
  LET Failed(e) == [game |-> g, raised |-> e, num_zombies |-> 0,
                    clusters |-> <<>>]
  IN  IF AuthorizeRaises(g, user) # NoError
      THEN Failed(AuthorizeRaises(g, user))
      ELSE IF user # g.owner THEN Failed("AuthorizationError")
      ELSE IF SetLocationRaises(lat, lon) # NoError
      THEN Failed(SetLocationRaises(lat, lon))
      ELSE PopulateZombies(
             SetDestination([g EXCEPT !.started = TRUE],
                            SetLocation(Entity, lat, lon)),
             rnd)

\* the loop of PutHandler.get's Put from player i on: the user's own
\* player takes the location of the request
RECURSIVE PutLocation(_, _, _, _, _)
PutLocation(g, user, lat, lon, i) ==
  LET Located(player) ==
        IF player.email # user THEN PutLocation(g, user, lat, lon, i + 1)
        ELSE IF Lat(player) = lat /\ Lon(player) = lon
        THEN [game |-> g, raised |-> NoError]
        ELSE IF SetLocationRaises(lat, lon) # NoError
        THEN [game |-> g, raised |-> SetLocationRaises(lat, lon)]
        ELSE IF SetPlayerRaises(g, i - 1) # NoError
        THEN [game |-> g, raised |-> SetPlayerRaises(g, i - 1)]
        ELSE [game |-> SetPlayer(g, i - 1, SetLocation(player, lat, lon)),
              raised |-> NoError]
  IN  IF i > Len(g.players) THEN [game |-> g, raised |-> NoError]
      ELSE Located(PlayerFromString(g.players[i]))

\* PutHandler.get, the function Put run on the loaded game
HandlerPut(g, user, lat, lon, elapsed, rnd) ==
  LET Advanced(put) ==
        IF put.raised # NoError THEN put
        ELSE IF put.game.started THEN GameAdvance(put.game, elapsed, rnd)
        ELSE put
  IN  IF AuthorizeRaises(g, user) # NoError
      THEN [game |-> g, raised |-> AuthorizeRaises(g, user)]
      ELSE Advanced(PutLocation(g, user, lat, lon, 1))

\* GetHandler.get, the function GetAndAdvance run on the loaded game
HandlerGet(g, user, elapsed, rnd) ==
  IF AuthorizeRaises(g, user) # NoError
  THEN [game |-> g, raised |-> AuthorizeRaises(g, user)]
  ELSE IF g.started THEN GameAdvance(g, elapsed, rnd)
  ELSE [game |-> g, raised |-> NoError]

\* GameHandler.PutGame under db.RunInTransaction: what is stored after a
\* handler that left `result`
PutGame(before, result) ==
  IF result.raised = NoError THEN result.game ELSE before

---------------------------------------------------------------------------
(* The server: requests against one stored game.  `stored` is the game in  *)
(* the datastore, `game` the snapshot the last request worked on.          *)

PutLocs == {<<-3000, 7>>, <<3000, 7>>, <<0, 7>>}
StartLocs == {<<-2000, 7>>, <<3000, 7>>, <<0, 7>>}
ServerElapsed == {2}
AdvanceSeeds == {6}

ServerInit ==
  /\ stored = NewGame(Owner)
  /\ game = NewGame(Owner)
  /\ call = [op |-> "create", user |-> Owner, raised |-> NoError]
  /\ clock = 0

\* a user joins the game as a player without a location; the owner is the
\* first to join
JoinRequest ==
  \E user \in Emails :
    /\ Len(stored.players) < MaxPlayers
    /\ \A i \in 1 .. Len(stored.player_emails) :
         stored.player_emails[i] # user
    /\ stored.players = <<>> => user = Owner
    /\ stored' = AddPlayer(stored, NewPlayer(user))
    /\ game' = stored'
    /\ call' = [op |-> "join", user |-> user, raised |-> NoError]
    /\ UNCHANGED clock

StartRequest ==
  \E user \in Emails, loc \in StartLocs, seed \in Seeds :
    \E r \in {HandlerStart(stored, user, loc[1], loc[2], seed)} :
      /\ game' = r.game
      /\ stored' = PutGame(stored, r)
      /\ call' = [op |-> "start", user |-> user, raised |-> r.raised,
                  num_zombies |-> r.num_zombies, clusters |-> r.clusters]
      /\ UNCHANGED clock

\* the time between two requests counts against the clock once the game is
\* started
PutRequest ==
  \E user \in Emails, loc \in PutLocs,
     elapsed \in {e \in ServerElapsed :
                    stored.started => clock + e <= MaxClock},
     seed \in AdvanceSeeds :
    \E r \in {HandlerPut(stored, user, loc[1], loc[2], elapsed, seed)} :
      /\ game' = r.game
      /\ stored' = PutGame(stored, r)
      /\ call' = [op |-> "put", user |-> user, raised |-> r.raised]
      /\ clock' = IF stored.started THEN clock + elapsed ELSE clock

GetRequest ==
  \E user \in Emails,
     elapsed \in {e \in ServerElapsed :
                    stored.started => clock + e <= MaxClock},
     seed \in AdvanceSeeds :
    \E r \in {HandlerGet(stored, user, elapsed, seed)} :
      /\ game' = r.game
      /\ stored' = PutGame(stored, r)
      /\ call' = [op |-> "get", user |-> user, raised |-> r.raised]
      /\ clock' = IF stored.started THEN clock + elapsed ELSE clock

ServerNext ==
  \/ JoinRequest
  \/ StartRequest
  \/ PutRequest
  \/ GetRequest

SpecServer == ServerInit /\ [][ServerNext]_vars

\* C6: a successful start request on a game that is already started leaves
\* the stored destination and the stored pursuer list as they were.
C6_StartIsOneTime ==
  [][(stored.started /\ call'.op = "start" /\ call'.raised = NoError)
       => (/\ stored'.destination = stored.destination
           /\ stored'.zombies = stored.zombies)]_vars

\* C7: after a start request that failed with GameStateError the snapshot it
\* worked on is un-started, has no destination and has no pursuers.
C7_FailedStartLeavesUnstarted ==
  (call.op = "start" /\ call.raised = "GameStateError")
    => (/\ ~game.started
        /\ game.destination = NoneValue
        /\ game.zombies = <<>>)

\* C11: in every reachable state of the server a game that is not started,
\* the stored one or the snapshot of the last request, has no pursuers and
\* no destination.
C11_UnstartedIsEmpty ==
  \A g \in {game, stored} :
    ~g.started => (g.zombies = <<>> /\ g.destination = NoneValue)

\* a start request has failed: the stored game is un-started still, and the
\* snapshot the request worked on is marked started
C11_Witness ==
  /\ call.op = "start"
  /\ call.raised = "GameStateError"
  /\ ~stored.started
  /\ game.started

\* C12: the movement budgets of the steps of one Zombie.Advance call of t
\* seconds sum to speed x t, so an Advance call of t seconds leaves every
\* pursuer within speed x t of where it was before the call.
C12_MovesWithinBudget ==
  [][(/\ call'.op = "Advance"
      /\ call'.raised = NoError
      /\ ZombiesDecode(game)
      /\ ZombiesDecode(game'))
       => \A i \in 1 .. Len(game.zombies) :
            DistanceFrom(Zombies(game)[i], Zombies(game')[i])
              <= DistanceToMove(call'.seconds, Zombies(game)[i].speed)]_vars

\* the sum of the first n sizes of a list of cluster sizes
RECURSIVE SumOfFirst(_, _)
SumOfFirst(clusters, n) ==
  IF n = 0 THEN 0 ELSE SumOfFirst(clusters, n - 1) + clusters[n]

\* every cluster has a size from 1 to min(4, target - count before it), and
\* together the clusters make up the target
ClustersFillTarget(clusters, target) ==
  /\ \A k \in 1 .. Len(clusters) :
       /\ clusters[k] >= 1
       /\ clusters[k] <= Min(MAX_ZOMBIE_CLUSTER_SIZE,
                             target - SumOfFirst(clusters, k - 1))
  /\ SumOfFirst(clusters, Len(clusters)) = target

\* the owner's player as the stored game has it
OwnerPlayers(g) == SelectSeq(Players(g), LAMBDA p : p.email = g.owner)

\* the start request that is the step to the next state runs the generator
\* on a game with zero pursuers: the owner asks, and has a location
GeneratorRuns ==
  /\ call'.op = "start"
  /\ call'.user = stored.owner
  /\ stored.zombies = <<>>
  /\ OwnerPlayers(stored) # <<>>
  /\ IsLocated(OwnerPlayers(stored)[1])

\* what the generator is to leave behind: the target number of pursuers,
\* at least 20, in clusters of the sizes allowed
GeneratorReachedTarget ==
  /\ call'.num_zombies >= MIN_NUM_ZOMBIES
  /\ call'.num_zombies
       = NumZombies(stored.zombie_density,
                    DistanceFrom(OwnerPlayers(stored)[1],
                                 GameDestination(game')))
  /\ Len(game'.zombies) = call'.num_zombies
  /\ ClustersFillTarget(call'.clusters, call'.num_zombies)

\* C13: the generator, run on a game with zero pursuers, returns and leaves
\* exactly the target number of pursuers, at least 20, every cluster having
\* a size from 1 to min(4, target - current count).
C13_GeneratorReachesTarget ==
  [][GeneratorRuns
       => (call'.raised = NoError /\ GeneratorReachedTarget)]_vars

\* the part of C13 that holds: a run of the generator that returns has
\* reached its target
GeneratorReachesTargetWhenItReturns ==
  [][(GeneratorRuns /\ call'.raised = NoError)
       => GeneratorReachedTarget]_vars

===========================================================================
